---- MODULE Spec2Model ----
(***************************************************************************)
(* ChessGame of CHESS_MINMAX.py: the game loop play_game, the alpha-beta   *)
(* search minimax with its explicit recursion stack, and the evaluator     *)
(* evaluate_board.  The python-chess board is an external rules engine; it *)
(* is represented by a family of finite game trees: a position is the     *)
(* sequence of moves played from the initial position, and what the rules  *)
(* engine answers for it (legal moves, outcome, pieces) is a fixed         *)
(* function of the game and of that sequence.                              *)
(***************************************************************************)
EXTENDS Integers, Sequences, FiniteSets

VARIABLES
    game,     \* which game tree the rules engine presents
    mode,     \* play_game's mode, or "api" for a direct caller of minimax
    pc,       \* where the caller of minimax is
    board,    \* self.board
    frames,   \* the activations of minimax, the executing one last
    visited   \* calls of minimax since the outermost one, itself included

vars == <<game, mode, pc, board, frames, visited>>

(***************************************************************************)
(* Bounds of the model.                                                    *)
(***************************************************************************)
\* most legal moves the rules engine yields in one position
NumMoves == 3
\* every position this many plies from the start is game over
MaxPly == 5
\* number of different game trees
NumGames == 12
\* squares of the board (two hold the kings)
NumSquares == 4
\* largest depth a direct caller passes to minimax
MaxDepth == 3
\* most moves a direct caller plays before calling minimax
MaxSetup == 1

(***************************************************************************)
(* Program constants.                                                      *)
(***************************************************************************)
\* math.inf: above every score evaluate_board returns
Inf == 100000
\* the checkmate score
MateScore == 1000
\* the depth play_game searches to
SearchDepth == 3
\* None, where a move is expected
NoMove == 0
\* chess.WHITE
WHITE == TRUE
\* chess.BLACK
BLACK == FALSE

Max(a, b) == IF a >= b THEN a ELSE b
Min(a, b) == IF a <= b THEN a ELSE b

(***************************************************************************)
(* The rules engine (python-chess), as the code uses it.                   *)
(***************************************************************************)
RECURSIVE Code(_)
\* a position's number: its moves read as digits
Code(s) ==
    IF s = <<>> THEN 0
    ELSE Code(SubSeq(s, 1, Len(s) - 1)) * (NumMoves + 1) + s[Len(s)]

\* what distinguishes the positions of one game from those of another
Mix(g, s, salt) ==
    LET x == (Code(s) * 31 + salt * 17 + g * 101) % 1009
    IN ((x * x) \div 7 + x) % 1009

\* chess.Board(): the initial position, White to move, no move played
InitialBoard == [stack |-> <<>>, turn |-> WHITE]

PieceTypes == <<"PAWN", "KNIGHT", "BISHOP", "ROOK", "QUEEN">>

\* chess.SQUARES
Squares == 1..NumSquares

\* board.piece_at(square): a piece, or None.  The kings are always there;
\* the initial position is balanced
NoPiece == [piece_type |-> "NONE", color |-> WHITE]
PieceAt(g, b, square) ==
    LET h == Mix(g, b.stack, 2 + square) % 15 IN
    IF square = 1 THEN [piece_type |-> "KING", color |-> WHITE]
    ELSE IF square = 2 THEN [piece_type |-> "KING", color |-> BLACK]
    ELSE IF b.stack = <<>>
         THEN (IF square = 3 THEN [piece_type |-> "ROOK", color |-> WHITE]
               ELSE IF square = 4 THEN [piece_type |-> "ROOK", color |-> BLACK]
               ELSE NoPiece)
    ELSE IF h >= 12 THEN NoPiece
    ELSE [piece_type |-> PieceTypes[1 + (h % 5)], color |-> (h < 6)]

\* board.is_insufficient_material(): the kings alone, or with one knight or
\* bishop
IsInsufficientMaterial(g, b) ==
    LET others == {sq \in Squares :
                     PieceAt(g, b, sq).piece_type \notin {"NONE", "KING"}}
    IN \/ others = {}
       \/ /\ Cardinality(others) = 1
          /\ \A sq \in others :
                PieceAt(g, b, sq).piece_type \in {"KNIGHT", "BISHOP"}

\* board.outcome(): why the game is over in this position, or "none"
Outcome(g, b) ==
    LET h == Mix(g, b.stack, 1) % 24 IN
    IF b.stack = <<>> THEN "none"
    ELSE IF IsInsufficientMaterial(g, b) THEN "insufficient_material"
    ELSE IF Len(b.stack) >= MaxPly
         THEN (IF h < 6 THEN "checkmate"
               ELSE IF h < 9 THEN "stalemate" ELSE "seventyfive_moves")
    ELSE IF h = 0 THEN "checkmate"
    ELSE IF h = 1 THEN "stalemate"
    ELSE IF h = 2 THEN "fivefold_repetition"
    ELSE "none"

IsCheckmate(g, b) == Outcome(g, b) = "checkmate"
IsStalemate(g, b) == Outcome(g, b) = "stalemate"
IsGameOver(g, b) == Outcome(g, b) # "none"

\* list(board.legal_moves): none exactly in checkmate and stalemate
LegalMoves(g, b) ==
    IF IsCheckmate(g, b) \/ IsStalemate(g, b) THEN <<>>
    ELSE LET h == Mix(g, b.stack, 2) % (2 * NumMoves)
         IN [k \in 1..(IF h >= NumMoves THEN NumMoves ELSE 1 + h) |-> k]

\* board.push(move)
Push(b, move) == [stack |-> Append(b.stack, move), turn |-> ~b.turn]

\* board.pop()
Pop(b) == [stack |-> SubSeq(b.stack, 1, Len(b.stack) - 1), turn |-> ~b.turn]

(***************************************************************************)
(* evaluate_board                                                          *)
(***************************************************************************)
\* piece_values.get(piece.piece_type, 0)
PieceValue(piece_type) ==
    CASE piece_type = "PAWN" -> 1
      [] piece_type = "KNIGHT" -> 3
      [] piece_type = "BISHOP" -> 3
      [] piece_type = "ROOK" -> 5
      [] piece_type = "QUEEN" -> 9
      [] piece_type = "KING" -> 0
      [] OTHER -> 0

RECURSIVE MaterialUpTo(_, _, _)
\* the loop over chess.SQUARES: score after the squares 1..n
MaterialUpTo(g, b, n) ==
    IF n = 0 THEN 0
    ELSE LET piece == PieceAt(g, b, n)
             value == PieceValue(piece.piece_type)
         IN MaterialUpTo(g, b, n - 1)
              + (IF piece = NoPiece THEN 0
                 ELSE IF piece.color = WHITE THEN value ELSE 0 - value)

EvaluateBoard(g, b) ==
    IF IsCheckmate(g, b) THEN (IF b.turn THEN 0 - MateScore ELSE MateScore)
    ELSE IF IsStalemate(g, b) THEN 0
    ELSE MaterialUpTo(g, b, NumSquares)

(***************************************************************************)
(* minimax: one record per activation, the last one executing.             *)
(*   pc = "entry": called, before the test of line 66                      *)
(*   pc = "loop":  at the head of the for loop, about to try move i        *)
(*   pc = "call":  move i pushed, waiting for the recursive call           *)
(*   pc = "ret":   returning (ret_score, ret_move)                         *)
(* entry, alpha0 and beta0 record the board and the bounds at the call.    *)
(***************************************************************************)
NewFrame(depth, alpha, beta, is_maximizing, b) ==
    [depth |-> depth, alpha |-> alpha, beta |-> beta,
     is_maximizing |-> is_maximizing, pc |-> "entry",
     legal_moves |-> <<>>, i |-> 0, best_eval |-> 0, best_move |-> NoMove,
     ret_score |-> 0, ret_move |-> NoMove,
     entry |-> b, alpha0 |-> alpha, beta0 |-> beta]

\* TerminalTest without the game-over test: the variant C3 is shown to exclude
TerminalTestDepthOnly(depth, g, b) == depth = 0

\* line 66: depth == 0 or self.board.is_game_over()
TerminalTest(depth, g, b) == depth = 0 \/ IsGameOver(g, b)

\* InitBest with the two infinities exchanged: the variant C8 is shown to
\* exclude
InitBestSwapped(is_maximizing) == IF is_maximizing THEN Inf ELSE 0 - Inf

\* lines 73, 88: max_eval = -inf, min_eval = inf
InitBest(is_maximizing) == IF is_maximizing THEN 0 - Inf ELSE Inf

\* ChildDepth without the decrement: the variant C10 is shown to exclude
ChildDepthSame(depth) == depth

\* lines 76, 91: the depth passed to the recursive call
ChildDepth(depth) == depth - 1

\* lines 79, 94: eval_score > max_eval, eval_score < min_eval
Better(is_maximizing, eval_score, best_eval) ==
    IF is_maximizing THEN eval_score > best_eval ELSE eval_score < best_eval

\* NewAlpha without the max: the variant the amended C6 is shown to exclude
NewAlphaNoMax(is_maximizing, alpha, eval_score) ==
    IF is_maximizing THEN eval_score ELSE alpha

\* line 83: alpha = max(alpha, eval_score), in a maximizing node only
NewAlpha(is_maximizing, alpha, eval_score) ==
    IF is_maximizing THEN Max(alpha, eval_score) ELSE alpha

\* line 98: beta = min(beta, eval_score), in a minimizing node only
NewBeta(is_maximizing, beta, eval_score) ==
    IF is_maximizing THEN beta ELSE Min(beta, eval_score)

\* Cutoff with its operands exchanged: the variant C1 is shown to exclude
CutoffSwapped(alpha, beta) == alpha <= beta

\* lines 84, 99: if beta <= alpha: break
Cutoff(alpha, beta) == beta <= alpha

\* AfterChild testing the cutoff on the bounds as they were before the update:
\* the variant C9 is shown to exclude
AfterChildTestFirst(f, eval_score) ==
    LET better == Better(f.is_maximizing, eval_score, f.best_eval)
        be == IF better THEN eval_score ELSE f.best_eval
        bm == IF better THEN f.legal_moves[f.i] ELSE f.best_move
        a == NewAlpha(f.is_maximizing, f.alpha, eval_score)
        b == NewBeta(f.is_maximizing, f.beta, eval_score)
    IN IF Cutoff(f.alpha, f.beta)
       THEN [f EXCEPT !.best_eval = be, !.best_move = bm, !.alpha = a,
                      !.beta = b, !.pc = "ret", !.ret_score = be,
                      !.ret_move = bm]
       ELSE [f EXCEPT !.best_eval = be, !.best_move = bm, !.alpha = a,
                      !.beta = b, !.pc = "loop", !.i = f.i + 1]

\* lines 79-86, 94-101: the rest of the loop body once the child has returned
\* eval_score, then either the break and the return or the next iteration
AfterChild(f, eval_score) ==
    LET better == Better(f.is_maximizing, eval_score, f.best_eval)
        be == IF better THEN eval_score ELSE f.best_eval
        bm == IF better THEN f.legal_moves[f.i] ELSE f.best_move
        a == NewAlpha(f.is_maximizing, f.alpha, eval_score)
        b == NewBeta(f.is_maximizing, f.beta, eval_score)
    IN IF Cutoff(a, b)
       THEN [f EXCEPT !.best_eval = be, !.best_move = bm, !.alpha = a,
                      !.beta = b, !.pc = "ret", !.ret_score = be,
                      !.ret_move = bm]
       ELSE [f EXCEPT !.best_eval = be, !.best_move = bm, !.alpha = a,
                      !.beta = b, !.pc = "loop", !.i = f.i + 1]

Top == frames[Len(frames)]

SetTop(f) == [frames EXCEPT ![Len(frames)] = f]

\* lines 66-67: return self.evaluate_board(), None
Leaf ==
    /\ frames # <<>>
    /\ Top.pc = "entry"
    /\ TerminalTest(Top.depth, game, board)
    /\ frames' = SetTop([Top EXCEPT !.pc = "ret",
                                    !.ret_score = EvaluateBoard(game, board),
                                    !.ret_move = NoMove])
    /\ UNCHANGED <<game, mode, pc, board, visited>>

\* lines 69-73, 88: the moves are listed, the best so far is none
Expand ==
    /\ frames # <<>>
    /\ Top.pc = "entry"
    /\ ~TerminalTest(Top.depth, game, board)
    /\ frames' = SetTop([Top EXCEPT !.pc = "loop",
                                    !.legal_moves = LegalMoves(game, board),
                                    !.i = 1,
                                    !.best_move = NoMove,
                                    !.best_eval = InitBest(Top.is_maximizing)])
    /\ UNCHANGED <<game, mode, pc, board, visited>>

\* lines 74-76, 89-91: push the next move and call minimax on the result
Descend ==
    /\ frames # <<>>
    /\ Top.pc = "loop"
    /\ Top.i <= Len(Top.legal_moves)
    /\ board' = Push(board, Top.legal_moves[Top.i])
    /\ frames' = Append(SetTop([Top EXCEPT !.pc = "call"]),
                        NewFrame(ChildDepth(Top.depth), Top.alpha, Top.beta,
                                 ~Top.is_maximizing, board'))
    /\ visited' = visited + 1
    /\ UNCHANGED <<game, mode, pc>>

\* lines 86, 101: the loop ran out of moves
LoopEnd ==
    /\ frames # <<>>
    /\ Top.pc = "loop"
    /\ Top.i > Len(Top.legal_moves)
    /\ frames' = SetTop([Top EXCEPT !.pc = "ret",
                                    !.ret_score = Top.best_eval,
                                    !.ret_move = Top.best_move])
    /\ UNCHANGED <<game, mode, pc, board, visited>>

\* ChildReturn with the break taken before the pop, so that a cutoff leaves
\* the move on the board: the variant C2 is shown to exclude
ChildReturnBreakBeforePop ==
    /\ Len(frames) >= 2
    /\ Top.pc = "ret"
    /\ frames' = [k \in 1..(Len(frames) - 1) |->
                    IF k = Len(frames) - 1
                    THEN AfterChild(frames[k], Top.ret_score)
                    ELSE frames[k]]
    /\ board' = IF frames'[Len(frames) - 1].pc = "ret"
                THEN board ELSE Pop(board)
    /\ UNCHANGED <<game, mode, pc, visited>>

\* lines 76-85, 91-100: the recursive call returns, the move is popped, the
\* best and the bound are updated and the cutoff is tested
ChildReturn ==
    /\ Len(frames) >= 2
    /\ Top.pc = "ret"
    /\ board' = Pop(board)
    /\ frames' = [k \in 1..(Len(frames) - 1) |->
                    IF k = Len(frames) - 1
                    THEN AfterChild(frames[k], Top.ret_score)
                    ELSE frames[k]]
    /\ UNCHANGED <<game, mode, pc, visited>>

Search == Leaf \/ Expand \/ Descend \/ LoopEnd \/ ChildReturn

(***************************************************************************)
(* play_game                                                               *)
(***************************************************************************)
\* lines 150-151
IsAiTurn(m, b) ==
    \/ (m = "hvr" /\ b.turn = BLACK)
    \/ (m = "hvm" /\ b.turn = BLACK)

\* line 144: the loop ends when the game is over (lines 166-173 only print)
GameOver ==
    /\ pc = "loop"
    /\ IsGameOver(game, board)
    /\ pc' = "done"
    /\ UNCHANGED <<game, mode, board, frames, visited>>

\* lines 161, 163: ask_human_move returns a legal move, which is pushed
HumanMove ==
    /\ pc = "loop"
    /\ ~IsGameOver(game, board)
    /\ ~IsAiTurn(mode, board)
    /\ \E k \in 1..Len(LegalMoves(game, board)) :
          board' = Push(board, LegalMoves(game, board)[k])
    /\ UNCHANGED <<game, mode, pc, frames, visited>>

\* get_random_move (lines 56-59)
RandomMoves(g, b) ==
    IF LegalMoves(g, b) # <<>>
    THEN {LegalMoves(g, b)[k] : k \in 1..Len(LegalMoves(g, b))}
    ELSE {NoMove}

\* lines 155-156, 159, 163: the random player; san(None) raises
RandomMove ==
    /\ pc = "loop"
    /\ ~IsGameOver(game, board)
    /\ IsAiTurn(mode, board)
    /\ mode = "hvr"
    /\ \E move \in RandomMoves(game, board) :
          IF move = NoMove
          THEN pc' = "error" /\ UNCHANGED board
          ELSE pc' = pc /\ board' = Push(board, move)
    /\ UNCHANGED <<game, mode, frames, visited>>

\* line 158: _, move = self.minimax(depth=3), with the defaults of line 61
CallMinimax ==
    /\ pc = "loop"
    /\ ~IsGameOver(game, board)
    /\ IsAiTurn(mode, board)
    /\ mode # "hvr"
    /\ frames' = <<NewFrame(SearchDepth, 0 - Inf, Inf, TRUE, board)>>
    /\ pc' = "search"
    /\ visited' = 1
    /\ UNCHANGED <<game, mode, board>>

\* lines 158-159, 163: the search returns and its move is played; san(None)
\* raises
ComputerPlays ==
    /\ pc = "search"
    /\ Len(frames) = 1
    /\ Top.pc = "ret"
    /\ frames' = <<>>
    /\ IF Top.ret_move = NoMove
       THEN pc' = "error" /\ UNCHANGED board
       ELSE pc' = "loop" /\ board' = Push(board, Top.ret_move)
    /\ visited' = 0
    /\ UNCHANGED <<game, mode>>

\* main (lines 182-190): a new ChessGame and the mode chosen
Init ==
    /\ game \in 1..NumGames
    /\ mode \in {"hvh", "hvr", "hvm"}
    /\ pc = "loop"
    /\ board = InitialBoard
    /\ frames = <<>>
    /\ visited = 0

Next ==
    \/ GameOver
    \/ HumanMove
    \/ RandomMove
    \/ CallMinimax
    \/ Search
    \/ ComputerPlays

Spec == Init /\ [][Next]_vars

(***************************************************************************)
(* A direct caller of ChessGame.minimax: it plays some moves on the board  *)
(* and calls minimax with arguments of its choice.                         *)
(***************************************************************************)
BoundValues == {0 - Inf, 0 - 1, 1, Inf}

ApiPush ==
    /\ pc = "api"
    /\ Len(board.stack) < MaxSetup
    /\ \E k \in 1..Len(LegalMoves(game, board)) :
          board' = Push(board, LegalMoves(game, board)[k])
    /\ UNCHANGED <<game, mode, pc, frames, visited>>

ApiCall ==
    /\ pc = "api"
    /\ \E depth \in 0..MaxDepth, alpha \in BoundValues, beta \in BoundValues,
          is_maximizing \in BOOLEAN :
          frames' = <<NewFrame(depth, alpha, beta, is_maximizing, board)>>
    /\ pc' = "apicall"
    /\ visited' = 1
    /\ UNCHANGED <<game, mode, board>>

ApiReturn ==
    /\ pc = "apicall"
    /\ Len(frames) = 1
    /\ Top.pc = "ret"
    /\ frames' = <<>>
    /\ pc' = "api"
    /\ visited' = 0
    /\ UNCHANGED <<game, mode, board>>

InitApi ==
    /\ game \in 1..NumGames
    /\ \/ mode \in {"hvh", "hvr", "hvm"} /\ pc = "loop"
       \/ mode = "api" /\ pc = "api"
    /\ board = InitialBoard
    /\ frames = <<>>
    /\ visited = 0

NextApi == Next \/ ApiPush \/ ApiCall \/ ApiReturn

SpecApi == InitApi /\ [][NextApi]_vars

(***************************************************************************)
(* Plain minimax: the search of lines 61-101 without the two breaks, over  *)
(* the same tree in the same move order with the same strict comparisons.  *)
(***************************************************************************)
RECURSIVE Plain(_, _, _, _), PlainScan(_, _, _, _, _, _, _, _)
Plain(g, b, depth, is_maximizing) ==
    IF depth = 0 \/ IsGameOver(g, b)
    THEN [score |-> EvaluateBoard(g, b), move |-> NoMove]
    ELSE PlainScan(g, b, depth, is_maximizing, LegalMoves(g, b), 1,
                   IF is_maximizing THEN 0 - Inf ELSE Inf, NoMove)

PlainScan(g, b, depth, is_maximizing, moves, i, best_eval, best_move) ==
    IF i > Len(moves) THEN [score |-> best_eval, move |-> best_move]
    ELSE LET r == Plain(g, [stack |-> Append(b.stack, moves[i]),
                            turn |-> ~b.turn],
                        depth - 1, ~is_maximizing).score
             better == IF is_maximizing THEN r > best_eval ELSE r < best_eval
         IN PlainScan(g, b, depth, is_maximizing, moves, i + 1,
                      IF better THEN r ELSE best_eval,
                      IF better THEN moves[i] ELSE best_move)

RECURSIVE PlainNodes(_, _, _), PlainNodesFrom(_, _, _, _, _)
\* the nodes plain minimax visits
PlainNodes(g, b, depth) ==
    IF depth = 0 \/ IsGameOver(g, b) THEN 1
    ELSE 1 + PlainNodesFrom(g, b, depth, LegalMoves(g, b), 1)

PlainNodesFrom(g, b, depth, moves, i) ==
    IF i > Len(moves) THEN 0
    ELSE PlainNodes(g, [stack |-> Append(b.stack, moves[i]), turn |-> ~b.turn],
                    depth - 1)
           + PlainNodesFrom(g, b, depth, moves, i + 1)

\* the outermost call of minimax is returning
OutermostReturns == Len(frames) = 1 /\ frames[1].pc = "ret"

\* the activation returned through line 67
ReturnedAtLine67(f) == f.pc = "ret" /\ f.i = 0

\* the activation left its loop through a break with moves still untried
CutOffEarly(f) == f.pc = "ret" /\ f.i >= 1 /\ f.i < Len(f.legal_moves)

(***************************************************************************)
(* C1. Pruning equivalence: an outermost call minimax(depth, -inf, +inf,   *)
(* is_maximizing) returns the (score, move) pair plain minimax returns on  *)
(* the same tree, and visits no more nodes than plain minimax does.        *)
(***************************************************************************)
C1_PruningEquivalence ==
    (OutermostReturns /\ frames[1].alpha0 = 0 - Inf /\ frames[1].beta0 = Inf)
    => /\ [score |-> frames[1].ret_score, move |-> frames[1].ret_move]
            = Plain(game, frames[1].entry, frames[1].depth,
                    frames[1].is_maximizing)
       /\ visited <= PlainNodes(game, frames[1].entry, frames[1].depth)

\* a search of depth 3 or more that pruned part of the tree and returns a move
C1_Witness ==
    /\ OutermostReturns
    /\ frames[1].alpha0 = 0 - Inf
    /\ frames[1].beta0 = Inf
    /\ frames[1].depth >= 3
    /\ frames[1].ret_move # NoMove
    /\ visited < PlainNodes(game, frames[1].entry, frames[1].depth)

(***************************************************************************)
(* C2. Reversibility: whenever an activation of minimax returns, at any    *)
(* level and also after a cutoff, the board is the board it was called on. *)
(***************************************************************************)
C2_BoardRestoredAtReturn ==
    (frames # <<>> /\ Top.pc = "ret") => board = Top.entry

\* a recursive level returns through a cutoff, moves made and untried
C2_Witness ==
    /\ Len(frames) >= 2
    /\ CutOffEarly(Top)
    /\ Top.depth >= 2
    /\ board = Top.entry

(***************************************************************************)
(* C3. Termination rule: an activation called with depth 0 or on a board   *)
(* that is game over returns (evaluate_board(), None) at once: its next    *)
(* step is that return, with no move applied and no recursive call.        *)
(***************************************************************************)
C3_TerminalRule ==
    [][(frames # <<>> /\ Top.pc = "entry"
          /\ (Top.depth = 0 \/ IsGameOver(game, board)))
       => /\ board' = board
          /\ Len(frames') = Len(frames)
          /\ frames'[Len(frames)].pc = "ret"
          /\ frames'[Len(frames)].ret_score = EvaluateBoard(game, board)
          /\ frames'[Len(frames)].ret_move = NoMove
          /\ visited' = visited]_vars

\* returned at once with depth left, on a game-over board that has legal
\* moves
C3_Witness ==
    /\ frames # <<>>
    /\ ReturnedAtLine67(Top)
    /\ Top.depth > 0
    /\ IsGameOver(game, board)
    /\ LegalMoves(game, board) # <<>>
    /\ Top.ret_move = NoMove

(***************************************************************************)
(* C4. The maximizing flag is the side to move: in every activation of     *)
(* minimax, is_maximizing is true exactly when White was to move on the    *)
(* board it was called on.                                                 *)
(***************************************************************************)
C4_MaximizingIsWhite ==
    \A k \in 1..Len(frames) :
        frames[k].is_maximizing = (frames[k].entry.turn = WHITE)

(***************************************************************************)
(* C5. Drawn terminal positions evaluate to 0: when minimax returns        *)
(* evaluate_board() for a board that is game over and not checkmate, the   *)
(* score is 0.                                                             *)
(***************************************************************************)
C5_DrawEvaluatesZero ==
    (frames # <<>> /\ ReturnedAtLine67(Top)
       /\ IsGameOver(game, board) /\ ~IsCheckmate(game, board))
    => Top.ret_score = 0

(***************************************************************************)
(* C6, as claimed. Bounds are checked: an activation entered with          *)
(* alpha > beta never gets past its entry.                                 *)
(***************************************************************************)
C6_FailsFast ==
    \A k \in 1..Len(frames) :
        frames[k].alpha0 > frames[k].beta0 => frames[k].pc = "entry"

RECURSIVE FirstLineEnd(_, _, _)
\* the board reached from b by first legal moves, until the depth is used up
\* or the game is over
FirstLineEnd(g, b, depth) ==
    IF depth = 0 \/ IsGameOver(g, b) THEN b
    ELSE FirstLineEnd(g, [stack |-> Append(b.stack, LegalMoves(g, b)[1]),
                          turn |-> ~b.turn], depth - 1)

(***************************************************************************)
(* C6, amended. Bounds are not checked: an activation entered with         *)
(* alpha > beta keeps its bounds unswapped and hands them unchanged to its *)
(* recursive call; it returns (evaluate_board(), None) at depth 0 or on a  *)
(* game-over board, and otherwise tries only the first legal move and      *)
(* returns that move with the score of its search, which is finite: the    *)
(* evaluation at the end of the line of first legal moves.                 *)
(***************************************************************************)
C6_UncheckedBounds ==
    \A k \in 1..Len(frames) :
        LET f == frames[k] IN
        f.alpha0 > f.beta0 =>
          /\ f.alpha > f.beta
          /\ IF f.is_maximizing
             THEN f.beta = f.beta0 /\ f.alpha >= f.alpha0
             ELSE f.alpha = f.alpha0 /\ f.beta <= f.beta0
          /\ f.i <= 1
          /\ (k < Len(frames)) =>
                /\ frames[k + 1].alpha0 = f.alpha0
                /\ frames[k + 1].beta0 = f.beta0
          /\ (f.pc = "ret" /\ (f.depth = 0 \/ IsGameOver(game, f.entry))) =>
                /\ f.ret_score = EvaluateBoard(game, f.entry)
                /\ f.ret_move = NoMove
          /\ (f.pc = "ret" /\ ~(f.depth = 0 \/ IsGameOver(game, f.entry))) =>
                /\ f.i = 1
                /\ f.ret_move = LegalMoves(game, f.entry)[1]
                /\ f.ret_score > 0 - Inf
                /\ f.ret_score < Inf
          /\ f.pc = "ret" =>
                f.ret_score
                  = EvaluateBoard(game, FirstLineEnd(game, f.entry, f.depth))

\* an outermost call with alpha > beta returns the first of several moves
C6_Witness ==
    /\ OutermostReturns
    /\ frames[1].alpha0 > frames[1].beta0
    /\ frames[1].depth >= 2
    /\ Len(frames[1].legal_moves) >= 2
    /\ frames[1].ret_move = frames[1].legal_moves[1]

(***************************************************************************)
(* C8. No move only at leaves: minimax returns None for the move only at   *)
(* depth 0 or on a game-over board; with depth > 0, a board not game over  *)
(* and alpha < beta it returns one of the board's legal moves and a finite *)
(* score; the game loop never gets None to play.                           *)
(***************************************************************************)
C8_NoMoveOnlyAtLeaves ==
    /\ pc # "error"
    /\ (frames # <<>> /\ Top.pc = "ret") =>
          /\ Top.ret_move = NoMove
                => (Top.depth = 0 \/ IsGameOver(game, Top.entry))
          /\ (Top.depth > 0 /\ ~IsGameOver(game, Top.entry)
                /\ Top.alpha0 < Top.beta0)
                => /\ \E k \in 1..Len(LegalMoves(game, Top.entry)) :
                          Top.ret_move = LegalMoves(game, Top.entry)[k]
                   /\ Top.ret_score > 0 - Inf
                   /\ Top.ret_score < Inf

\* the search of the game loop returns the move the loop is about to play
C8_Witness ==
    /\ pc = "search"
    /\ OutermostReturns
    /\ frames[1].depth > 0
    /\ ~IsGameOver(game, board)
    /\ frames[1].ret_move # NoMove

(***************************************************************************)
(* C9. Bound monotonicity and cutoff order: in a maximizing activation     *)
(* alpha never decreases and beta stays; in a minimizing one beta never    *)
(* increases and alpha stays; when a child returns, the activation breaks  *)
(* exactly when the bound updated with that child's score meets the other  *)
(* bound; and an activation that has left its loop makes no further call.  *)
(***************************************************************************)
C9_BoundsAndCutoff ==
    [][/\ \A k \in 1..Min(Len(frames), Len(frames')) :
            LET f == frames[k]
                f2 == frames'[k]
            IN /\ f.is_maximizing
                    => (f2.alpha >= f.alpha /\ f2.beta = f.beta)
               /\ ~f.is_maximizing
                    => (f2.beta <= f.beta /\ f2.alpha = f.alpha)
               /\ (k = Len(frames) - 1 /\ Len(frames') = k) =>
                    LET s == Top.ret_score IN
                    /\ f2.alpha = (IF f.is_maximizing
                                   THEN Max(f.alpha, s) ELSE f.alpha)
                    /\ f2.beta = (IF f.is_maximizing
                                  THEN f.beta ELSE Min(f.beta, s))
                    /\ (f2.pc = "ret") <=> (f2.beta <= f2.alpha)
                    /\ (f2.pc # "ret") => (f2.pc = "loop" /\ f2.i = f.i + 1)
       /\ (frames # <<>> /\ Top.pc = "ret") => Len(frames') < Len(frames)
      ]_vars

\* a maximizing activation entered with alpha < beta broke out of its loop
\* on the score of a later child, with moves untried
C9_Witness ==
    /\ frames # <<>>
    /\ CutOffEarly(Top)
    /\ Top.is_maximizing
    /\ Top.i >= 2
    /\ Top.alpha0 < Top.beta0
    /\ Top.alpha > Top.alpha0
    /\ Top.beta <= Top.alpha

====
